---- MODULE Spec2Model ----
(***************************************************************************)
(* Position risk controller of the crypto trading bot: the threshold       *)
(* evaluation (close_pnl_position), the close loop (close_position) and    *)
(* the tick that runs them (close_allowed_positions / clear_old_positions) *)
(* against an exchange whose position and orders move on their own; then   *)
(* the rest of the driver's tick: the admission check                      *)
(* (can_open_position_by_default_rule) and open_position.                  *)
(*                                                                         *)
(* Units: amounts are whole lots, percentages are thousandths of a         *)
(* percent (-4000 is -4.0 %), prices are sub-ticks of the instrument.      *)
(* Python's None is the string "none" for a side and the flag `empty` for  *)
(* the all-None tuple of get_open_positions.  A local that is out of scope *)
(* or will be rebound before its next use holds its initial value.         *)
(***************************************************************************)
EXTENDS Integers, Sequences, FiniteSets, TLC

VARIABLES
    impl,      \* which class runs: "adapter" (BinanceFuturesTradingAdapter) or "helper"
    args,      \* [loss, target]: the thresholds of the running call
    posAmt,    \* exchange: signed position amount (> 0 long, < 0 short, 0 flat)
    orders,    \* exchange: the resting orders, oldest first, and the newest order
    pc,        \* where the tick is
    snap,      \* close_pnl_position: the tuple it read
    branch,    \* close_pnl_position: the branch entered ("none" outside one)
    cl,        \* close_position: side, size, position_open of the current cycle
    book,      \* close_position, open_position: bid, ask of the current cycle or call
    exc,       \* the call whose exception is being handled ("" when none)
    report,    \* the outcome notified (adapter) or printed (helper) in this tick
    req,       \* the arguments of the create_order call of the current cycle or call
    prevReq,   \* history: side and amount of the create_order call of the cycle before
    lastRead,  \* history: what the exchange held at the last get_open_positions
    cnt,       \* history: cycles, open reads, submissions, sleeps of this close loop
    cyc,       \* history: cancels, book reads, submissions of the current cycle
    drv,       \* check_and_place_orders: the admission call, its outcome and
               \* what the exchange held at its reads; open_position's return
    tk         \* history: what became of the cancel_all_orders of this tick

vars == <<impl, args, posAmt, orders, pc, snap, branch, cl, book, exc, report,
          req, prevReq, lastRead, cnt, cyc, drv, tk>>

----
\* Bounds of the model.

\* the position stays within -MaxPos .. MaxPos lots
MaxPos == 2
\* orders that may rest on the exchange at once
MaxOrders == 2
\* evaluation cycles of one close loop
MaxCycles == 3
\* how many distinct raw prices the book may show
PriceSpan == 2

\* the instrument's price increment, in sub-ticks
TickSize == 3

\* stop_loss and profit_target of the strategy, in thousandths of a percent
StopLossDefault == -4000
TakeProfitDefault == 8000

\* max_position_size and position_size of the strategy, in lots of 0.002
MaxSizeDefault == 2
PositionSizeDefault == 1

\* loss and target outside a call
NoArgs == [loss |-> 0, target |-> 0]

\* The thresholds a tick may be given: the strategy's, one whose stop-loss
\* is not a multiple of 0.01, and a misconfigured one (target below loss).
Policies ==
    { [loss |-> StopLossDefault, target |-> TakeProfitDefault],
      [loss |-> StopLossDefault - 7, target |-> TakeProfitDefault],
      [loss |-> StopLossDefault, target |-> StopLossDefault - 2000] }

\* The max_size an admission call may be given: the strategy's and the
\* positive ones below it.
MaxSizes == 1..MaxSizeDefault

\* The percentages the exchange may report.
PctGrid ==
    { -5000, -4007, -4006, -4004, -4000, 0, 7996, 8000, 9000 }

\* The raw prices the book may show: the first PriceSpan sub-ticks above
\* three price increments, so that neighbours round to different increments.
Prices == { 3 * TickSize + i : i \in 1..PriceSpan }

\* The amounts the position may have.
Amts == (0 - MaxPos)..MaxPos

Abs(n) == IF n < 0 THEN 0 - n ELSE n

----
\* The exchange gateway.

\* ccxt's position side: derived from the sign of the amount
RawSide(amt) == IF amt > 0 THEN "long" ELSE IF amt < 0 THEN "short" ELSE "none"

\* info.positionAmt as Binance writes it: a sign and digits
RawAmt(amt) == [neg |-> amt < 0, digits |-> Abs(amt)]

\* fetch_positions(symbols=[symbol]): one entry, or no entry when flat
Replies(amt) ==
    { [entry |-> TRUE, side |-> RawSide(amt), positionAmt |-> RawAmt(amt),
       percentage |-> p] : p \in PctGrid }
    \cup (IF amt = 0
          THEN {[entry |-> FALSE, side |-> "none", positionAmt |-> RawAmt(0),
                 percentage |-> 0]}
          ELSE {})

\* What the program can see of fetch_orders: it tests the list for
\* emptiness and reads the status of its last element.  The exchange state
\* keeps the resting orders and the newest order; an order that is finished
\* and not the newest is dropped.
Finished(o) == o.status # "open"

Done(status) == [side |-> "none", remaining |-> 0, status |-> status, from |-> "none"]

Visible(os) ==
    IF Len(os) = 0 THEN os
    ELSE SelectSeq(SubSeq(os, 1, Len(os) - 1), LAMBDA o : ~Finished(o))
         \o << os[Len(os)] >>

\* cancel_all_orders: every open order becomes canceled
CancelAll(os) ==
    Visible([i \in 1..Len(os) |->
                IF os[i].status = "open" THEN Done("canceled") ELSE os[i]])

OpenOrders(os) == SelectSeq(os, LAMBDA o : ~Finished(o))

\* the exchange accepts an order while fewer than MaxOrders rest
CanAccept(os) == Len(OpenOrders(os)) < MaxOrders

\* create_order on the exchange: the order rests and is the newest
Accept(os, o) == Append(OpenOrders(os), o)

\* q lots of the resting order i fill
FillAt(os, i, q) ==
    Visible([os EXCEPT ![i] = IF os[i].remaining = q THEN Done("closed")
                               ELSE [os[i] EXCEPT !.remaining = @ - q]])

----
\* Pure steps of the program.

\* Faulty variant of PositionOpen: only a long position counts as open.
PositionOpenAlt(side) == side = "long"
\* position_open = side in ["long", "short"]
PositionOpen(side) == side \in {"long", "short"}

\* Faulty variant of ParseSize: float() of the amount as written, sign kept.
ParseSizeAlt(raw) == IF raw.neg THEN 0 - raw.digits ELSE raw.digits
\* positionAmt.replace("-", ""), then float(): the sign is dropped
ParseSize(raw) == raw.digits

NoSnapshot == [side |-> "none", size |-> 0, open |-> FALSE, percent |-> 0, empty |-> TRUE]

\* Faulty variant of GetOpenPositions: every entry counts as an open position.
GetOpenPositionsAlt(reply) ==
    IF reply.entry
    THEN [side |-> reply.side, size |-> ParseSize(reply.positionAmt),
          open |-> TRUE, percent |-> reply.percentage,
          empty |-> FALSE]
    ELSE NoSnapshot
\* get_open_positions: the first entry as a tuple, or the all-None tuple
GetOpenPositions(reply) ==
    IF reply.entry
    THEN [side |-> reply.side, size |-> ParseSize(reply.positionAmt),
          open |-> PositionOpen(reply.side), percent |-> reply.percentage,
          empty |-> FALSE]
    ELSE NoSnapshot

\* round(percent, 2): to the nearest hundredth, ties to even
Round2(p) ==
    LET r == p % 10
        lo == p - r
    IN  IF r < 5 THEN lo
        ELSE IF r > 5 THEN lo + 10
        ELSE IF (lo \div 10) % 2 = 0 THEN lo ELSE lo + 10

\* price_to_precision(symbol, price): to the nearest price increment
PriceToPrecision(p) ==
    LET r == p % TickSize
    IN  IF 2 * r >= TickSize THEN p - r + TickSize ELSE p - r

\* Faulty variant of ThresholdAction: the take-profit test comes first.
ThresholdActionAlt(im, s, pol) ==
    IF im = "adapter"
    THEN IF ~s.empty /\ s.open
         THEN IF Round2(s.percent) >= pol.target THEN "take_profit"
              ELSE IF Round2(s.percent) < pol.loss THEN "stop_loss"
              ELSE "none"
         ELSE "none"
    ELSE IF ~s.empty
         THEN IF s.percent >= pol.target THEN "take_profit"
              ELSE IF s.percent < pol.loss THEN "stop_loss"
              ELSE "none"
         ELSE "none"
\* The branch close_pnl_position takes on the tuple it read.  The adapter
\* requires an open position and compares the percentage rounded to two
\* decimals; the helper compares the percentage as read.
ThresholdAction(im, s, pol) ==
    IF im = "adapter"
    THEN IF ~s.empty /\ s.open
         THEN IF Round2(s.percent) < pol.loss THEN "stop_loss"
              ELSE IF Round2(s.percent) >= pol.target THEN "take_profit"
              ELSE "none"
         ELSE "none"
    ELSE IF ~s.empty
         THEN IF s.percent < pol.loss THEN "stop_loss"
              ELSE IF s.percent >= pol.target THEN "take_profit"
              ELSE "none"
         ELSE "none"

NoOrder == [side |-> "none", price |-> 0, amount |-> 0]

\* Faulty variant of CloseOrder: bid and ask exchanged.
CloseOrderAlt(c, b) ==
    IF c.side = "long"
    THEN [side |-> "sell", price |-> PriceToPrecision(b.bid), amount |-> c.size]
    ELSE IF c.side = "short"
    THEN [side |-> "buy", price |-> PriceToPrecision(b.ask), amount |-> c.size]
    ELSE NoOrder
\* The create_order call of a close cycle, from the cycle's tuple and book.
CloseOrder(c, b) ==
    IF c.side = "long"
    THEN [side |-> "sell", price |-> PriceToPrecision(b.ask), amount |-> c.size]
    ELSE IF c.side = "short"
    THEN [side |-> "buy", price |-> PriceToPrecision(b.bid), amount |-> c.size]
    ELSE NoOrder

\* What close_pnl_position keeps of the tuple for its message: the adapter
\* side, size_rounded and percent_rounded; the helper nothing of these.
MessageLocals(im, s) ==
    IF im = "adapter" THEN [s EXCEPT !.percent = Round2(@)] ELSE NoSnapshot

\* The stop-loss or take-profit message (adapter) or printed line (helper).
Message(kind, s) ==
    [kind |-> kind, side |-> s.side, size |-> s.size, percent |-> s.percent]

NoReport == [kind |-> "none", side |-> "none", size |-> 0, percent |-> 0]
NoLocals == [side |-> "none", size |-> 0, open |-> FALSE]
NoBook == [bid |-> 0, ask |-> 0]
NoRead == [side |-> "none", amt |-> 0]
ZeroCnt == [cycles |-> 0, openReads |-> 0, submits |-> 0, sleeps |-> 0]
ZeroCyc == [cancels |-> 0, books |-> 0, submits |-> 0]

\* an accepted order on the exchange: its side and what is left to fill;
\* history: it was submitted in the tick that is running
Resting(o) ==
    [side |-> o.side, remaining |-> o.amount, status |-> "open", from |-> "this_tick"]

\* history: at the start of a tick the resting orders are those of earlier ticks
Aged(os) ==
    [i \in 1..Len(os) |->
        IF os[i].status = "open" THEN [os[i] EXCEPT !.from = "earlier_tick"] ELSE os[i]]

\* Faulty variant of HasExceededMaxSize: the limit itself is still allowed.
HasExceededMaxSizeAlt(s, max) == ~s.empty /\ s.size # 0 /\ s.size > max
\* has_exceeded_max_size on the tuple it read: if size and size >= max_size
HasExceededMaxSize(s, max) == ~s.empty /\ s.size # 0 /\ s.size >= max

\* Faulty variant of OppositeSide: only a short position blocks a long entry.
OppositeSideAlt(expected, current) == expected = "long" /\ current = "short"
\* can_open_position_by_default_rule: the test of current_side against expected_side
OppositeSide(expected, current) ==
    \/ expected = "long" /\ current = "short"
    \/ expected = "short" /\ current = "long"

\* Faulty variant of IsLastOrderOpen: every order that is not closed counts.
IsLastOrderOpenAlt(os) ==
    IF os = << >> THEN FALSE ELSE os[Len(os)].status # "closed"
\* is_last_order_open on the list fetch_orders returned
IsLastOrderOpen(os) ==
    IF os = << >> THEN FALSE ELSE os[Len(os)].status = "open"

\* history: what fetch_orders showed of the newest order
LastStatus(os) == IF os = << >> THEN "empty" ELSE os[Len(os)].status

\* Faulty variant of OpenOrder: bid and ask exchanged.
OpenOrderAlt(side, b, amount) ==
    IF side = "long"
    THEN [side |-> "buy", price |-> PriceToPrecision(b.ask), amount |-> amount]
    ELSE IF side = "short"
    THEN [side |-> "sell", price |-> PriceToPrecision(b.bid), amount |-> amount]
    ELSE NoOrder
\* The create_order call of open_position, from its side, book and amount.
OpenOrder(side, b, amount) ==
    IF side = "long"
    THEN [side |-> "buy", price |-> PriceToPrecision(b.bid), amount |-> amount]
    ELSE IF side = "short"
    THEN [side |-> "sell", price |-> PriceToPrecision(b.ask), amount |-> amount]
    ELSE NoOrder

\* the admission call and open_position outside a call
NoDrv == [expected |-> "none", max_size |-> 0, result |-> "none", why |-> "none",
          amt1 |-> 0, amt2 |-> 0, last |-> "unread", ret |-> "unset"]

\* Faulty variant of CapSites: send_message is called after the try of
\* close_allowed_positions.
CapSitesAlt == {"cap_cancel", "pnl_read", "cl_read", "cl_cancel", "cl_book",
                "cl_book_empty", "cl_submit"}
\* The calls made inside each try.
CapSites == {"cap_cancel", "pnl_read", "cl_read", "cl_cancel", "cl_book",
             "cl_book_empty", "cl_submit", "send_message"}
OpenSites == {"op_book", "op_book_empty", "op_submit"}
CpoSites == {"last_trade", "adm_size", "adm_side", "adm_orders"}

\* Faulty variant of Handler: the main loop has no try of its own.
HandlerAlt(at) ==
    IF at \in CapSites THEN "cap_except"
    ELSE IF at \in OpenSites THEN "op_except"
    ELSE IF at \in CpoSites THEN "cpo_except"
    ELSE "crashed"
\* Where an exception raised at a call is caught: the try of
\* close_allowed_positions, of open_position, of check_and_place_orders, or
\* the try of the main loop around schedule.run_pending().
Handler(at) ==
    IF at \in CapSites THEN "cap_except"
    ELSE IF at \in OpenSites THEN "op_except"
    ELSE IF at \in CpoSites THEN "cpo_except"
    ELSE "main_except"

----
\* The state after construction.

Init ==
    /\ impl \in {"adapter", "helper"}
    /\ args = NoArgs
    /\ posAmt \in Amts
    /\ orders = << >>
    /\ pc = "idle"
    /\ snap = NoSnapshot
    /\ branch = "none"
    /\ cl = NoLocals
    /\ book = NoBook
    /\ exc = ""
    /\ report = NoReport
    /\ req = NoOrder
    /\ prevReq = NoOrder
    /\ lastRead = NoRead
    /\ cnt = ZeroCnt
    /\ cyc = ZeroCyc
    /\ drv = NoDrv
    /\ tk = "unset"

\* An exception leaves every frame up to the nearest enclosing try.
Raise(at) ==
    /\ exc' = at
    /\ pc' = Handler(at)
    /\ snap' = NoSnapshot
    /\ branch' = "none"
    /\ cl' = NoLocals
    /\ book' = NoBook

----
\* The tick: close_allowed_positions (adapter), clear_old_positions (helper).

\* Faulty variant of Tick: the job is started again while a close loop of
\* the tick before is waiting.
TickAlt ==
    /\ pc \in {"idle", "cl_sleep"}
    /\ pc' = "cap_cancel"
    /\ args' \in Policies
    /\ exc' = ""
    /\ orders' = Aged(orders)
    /\ tk' = "unset"
    /\ UNCHANGED <<drv, prevReq, impl, posAmt, snap, branch, cl, book, report, req,
                   lastRead, cnt, cyc>>
\* the driver calls it with the thresholds
Tick ==
    /\ pc = "idle"
    /\ pc' = "cap_cancel"
    /\ args' \in Policies
    /\ exc' = ""
    /\ orders' = Aged(orders)
    /\ tk' = "unset"
    /\ UNCHANGED <<drv, prevReq, impl, posAmt, snap, branch, cl, book, report, req,
                   lastRead, cnt, cyc>>

\* Faulty variant of CapCancel: the evaluation follows without the
\* cancel_all_orders.
CapCancelAlt ==
    /\ pc = "cap_cancel"
    /\ \/ /\ tk' = "cancelled"
          /\ pc' = "pnl_read"
          /\ UNCHANGED <<orders, snap, branch, cl, book, exc>>
       \/ /\ Raise("cap_cancel")
          /\ tk' = "failed"
          /\ UNCHANGED orders
    /\ UNCHANGED <<drv, prevReq, impl, args, posAmt, report, req, lastRead, cnt, cyc>>
\* close_allowed_positions: cancel_all_orders, inside the try
CapCancel ==
    /\ pc = "cap_cancel"
    /\ \/ /\ orders' = CancelAll(orders)
          /\ tk' = "cancelled"
          /\ pc' = "pnl_read"
          /\ UNCHANGED <<snap, branch, cl, book, exc>>
       \/ /\ Raise("cap_cancel")
          /\ tk' = "failed"
          /\ UNCHANGED orders
    /\ UNCHANGED <<drv, prevReq, impl, args, posAmt, report, req, lastRead, cnt, cyc>>

\* close_pnl_position: the read of the position
PnlRead ==
    /\ pc = "pnl_read"
    /\ \/ \E reply \in Replies(posAmt) :
            /\ snap' = GetOpenPositions(reply)
            /\ lastRead' = [side |-> reply.side, amt |-> posAmt]
            /\ pc' = "pnl_eval"
            /\ UNCHANGED <<branch, cl, book, exc>>
       \/ /\ Raise("pnl_read")
          /\ UNCHANGED lastRead
    /\ UNCHANGED <<tk, drv, prevReq, impl, args, posAmt, orders, report, req, cnt, cyc>>

\* Faulty variant of ClosePnlEvaluate: a breach goes on to the message
\* without running close_position.
ClosePnlEvaluateAlt ==
    /\ pc = "pnl_eval"
    /\ LET a == ThresholdAction(impl, snap, args)
       IN  /\ pc' = IF a = "none" THEN "cap_done" ELSE "cl_return"
           /\ snap' = IF a = "none" THEN NoSnapshot ELSE MessageLocals(impl, snap)
           /\ branch' = a
    /\ args' = NoArgs
    /\ UNCHANGED <<tk, drv, prevReq, impl, posAmt, orders, cl, book, exc, report, req, lastRead, cnt,
                   cyc>>
\* close_pnl_position: the threshold test; a breach enters close_position
ClosePnlEvaluate ==
    /\ pc = "pnl_eval"
    /\ LET a == ThresholdAction(impl, snap, args)
       IN  /\ pc' = IF a = "none" THEN "cap_done" ELSE "cl_read"
           /\ snap' = IF a = "none" THEN NoSnapshot ELSE MessageLocals(impl, snap)
           /\ branch' = a
    /\ args' = NoArgs
    /\ UNCHANGED <<tk, drv, prevReq, impl, posAmt, orders, cl, book, exc, report, req, lastRead, cnt,
                   cyc>>

\* Faulty variant of CloseRead: the size is the one close_pnl_position
\* read before the loop, not the one of this cycle's read.
CloseReadAlt ==
    /\ pc = "cl_read"
    /\ \/ \E reply \in Replies(posAmt) :
            LET t == GetOpenPositions(reply)
                kept == IF snap.empty THEN t ELSE [t EXCEPT !.size = snap.size]
            IN  /\ lastRead' = [side |-> reply.side, amt |-> posAmt]
                /\ cnt' = [cnt EXCEPT !.cycles = @ + 1,
                                      !.openReads = @ + (IF reply.side \in {"long", "short"} THEN 1 ELSE 0)]
                /\ cyc' = ZeroCyc
                /\ IF t.open
                   THEN /\ cl' = [side |-> kept.side, size |-> kept.size, open |-> TRUE]
                        /\ pc' = "cl_cancel"
                   ELSE /\ cl' = NoLocals
                        /\ pc' = "cl_return"
                /\ UNCHANGED <<snap, branch, book, exc>>
       \/ /\ Raise("cl_read")
          /\ UNCHANGED <<lastRead, cnt, cyc>>
    /\ UNCHANGED <<tk, drv, prevReq, impl, args, posAmt, orders, report, req>>
\* close_position, top of a cycle: the fresh read and the test of position_open
CloseRead ==
    /\ pc = "cl_read"
    /\ \/ \E reply \in Replies(posAmt) :
            LET t == GetOpenPositions(reply)
            IN  /\ lastRead' = [side |-> reply.side, amt |-> posAmt]
                /\ cnt' = [cnt EXCEPT !.cycles = @ + 1,
                                      !.openReads = @ + (IF reply.side \in {"long", "short"} THEN 1 ELSE 0)]
                /\ cyc' = ZeroCyc
                /\ IF t.open
                   THEN /\ cl' = [side |-> t.side, size |-> t.size, open |-> TRUE]
                        /\ pc' = "cl_cancel"
                   ELSE /\ cl' = NoLocals
                        /\ pc' = "cl_return"
                /\ UNCHANGED <<snap, branch, book, exc>>
       \/ /\ Raise("cl_read")
          /\ UNCHANGED <<lastRead, cnt, cyc>>
    /\ UNCHANGED <<tk, drv, prevReq, impl, args, posAmt, orders, report, req>>

\* Faulty variant of CloseCancel: the cycle goes on to the book without
\* cancelling.
CloseCancelAlt ==
    /\ pc = "cl_cancel"
    /\ \/ /\ pc' = "cl_book"
          /\ cyc' = [cyc EXCEPT !.cancels = @ + 1]
          /\ UNCHANGED <<orders, snap, branch, cl, book, exc>>
       \/ /\ Raise("cl_cancel")
          /\ UNCHANGED <<orders, cyc>>
    /\ UNCHANGED <<tk, drv, prevReq, impl, args, posAmt, report, req, lastRead, cnt>>
\* close_position: cancel_all_orders of the cycle
CloseCancel ==
    /\ pc = "cl_cancel"
    /\ \/ /\ orders' = CancelAll(orders)
          /\ cyc' = [cyc EXCEPT !.cancels = @ + 1]
          /\ pc' = "cl_book"
          /\ UNCHANGED <<snap, branch, cl, book, exc>>
       \/ /\ Raise("cl_cancel")
          /\ UNCHANGED <<orders, cyc>>
    /\ UNCHANGED <<tk, drv, prevReq, impl, args, posAmt, report, req, lastRead, cnt>>

\* close_position: get_order_book; a side without orders raises at [0][0]
CloseBook ==
    /\ pc = "cl_book"
    /\ \/ \E b \in Prices, a \in Prices :
            /\ book' = [bid |-> b, ask |-> a]
            /\ cyc' = [cyc EXCEPT !.books = @ + 1]
            /\ pc' = "cl_submit"
            /\ UNCHANGED <<snap, branch, cl, exc>>
       \/ /\ Raise("cl_book")
          /\ UNCHANGED cyc
       \/ /\ Raise("cl_book_empty")
          /\ UNCHANGED cyc
    /\ UNCHANGED <<tk, drv, prevReq, impl, args, posAmt, orders, report, req, lastRead, cnt>>

\* Faulty variant of CloseSubmit: the next read follows the submission
\* without a wait.
CloseSubmitAlt ==
    /\ pc = "cl_submit"
    /\ LET o == CloseOrder(cl, book)
       IN  \/ /\ CanAccept(orders)
              /\ orders' = Accept(orders, Resting(o))
              /\ req' = NoOrder
              /\ cnt' = [cnt EXCEPT !.submits = @ + 1, !.sleeps = @ + 1]
              /\ cyc' = [cyc EXCEPT !.submits = @ + 1]
              /\ cnt.cycles < MaxCycles
              /\ pc' = "cl_read"
              /\ UNCHANGED <<snap, branch, cl, book, exc>>
           \/ /\ Raise("cl_submit")
              /\ UNCHANGED <<orders, req, cnt, cyc>>
    /\ UNCHANGED <<tk, drv, prevReq, impl, args, posAmt, report, lastRead>>
\* Faulty variant of CloseSubmit: on a crossed or equal book the cycle
\* submits nothing and waits.
CloseSubmitSkipCrossed ==
    /\ pc = "cl_submit"
    /\ LET o == CloseOrder(cl, book)
       IN  IF o = NoOrder \/ book.bid >= book.ask
           THEN /\ pc' = "cl_sleep"
                /\ UNCHANGED <<orders, req, cnt, cyc, snap, branch, cl, book, exc>>
           ELSE \/ /\ CanAccept(orders)
                   /\ orders' = Accept(orders, Resting(o))
                   /\ req' = o
                   /\ cnt' = [cnt EXCEPT !.submits = @ + 1]
                   /\ cyc' = [cyc EXCEPT !.submits = @ + 1]
                   /\ pc' = "cl_sleep"
                   /\ UNCHANGED <<snap, branch, cl, book, exc>>
                \/ /\ Raise("cl_submit")
                   /\ UNCHANGED <<orders, req, cnt, cyc>>
    /\ UNCHANGED <<tk, drv, prevReq, impl, args, posAmt, report, lastRead>>
\* close_position: the create_order of the cycle
CloseSubmit ==
    /\ pc = "cl_submit"
    /\ LET o == CloseOrder(cl, book)
       IN  IF o = NoOrder
           THEN /\ pc' = "cl_sleep"
                /\ UNCHANGED <<orders, req, cnt, cyc, snap, branch, cl, book, exc>>
           ELSE \/ /\ CanAccept(orders)
                   /\ orders' = Accept(orders, Resting(o))
                   /\ req' = o
                   /\ cnt' = [cnt EXCEPT !.submits = @ + 1]
                   /\ cyc' = [cyc EXCEPT !.submits = @ + 1]
                   /\ pc' = "cl_sleep"
                   /\ UNCHANGED <<snap, branch, cl, book, exc>>
                \/ /\ Raise("cl_submit")
                   /\ UNCHANGED <<orders, req, cnt, cyc>>
    /\ UNCHANGED <<tk, drv, prevReq, impl, args, posAmt, report, lastRead>>

\* Faulty variant of CloseSleep: the loop gives up after its second cycle.
CloseSleepGiveUp ==
    /\ pc = "cl_sleep"
    /\ cnt.cycles < MaxCycles
    /\ pc' = IF cnt.cycles >= 2 THEN "cl_return" ELSE "cl_read"
    /\ cnt' = [cnt EXCEPT !.sleeps = @ + 1]
    /\ cl' = NoLocals
    /\ book' = NoBook
    /\ req' = NoOrder
    /\ prevReq' = [req EXCEPT !.price = 0]
    /\ UNCHANGED <<tk, drv, impl, args, posAmt, orders, snap, branch, exc, report, lastRead,
                   cyc>>
\* Faulty variant of CloseSleep: the next cycle starts at the cancel,
\* without a fresh read.
CloseSleepAlt ==
    /\ pc = "cl_sleep"
    /\ cnt.cycles < MaxCycles
    /\ pc' = "cl_cancel"
    /\ cnt' = [cnt EXCEPT !.sleeps = @ + 1]
    /\ cl' = NoLocals
    /\ book' = NoBook
    /\ req' = NoOrder
    /\ prevReq' = [req EXCEPT !.price = 0]
    /\ UNCHANGED <<tk, drv, impl, args, posAmt, orders, snap, branch, exc, report, lastRead,
                   cyc>>
\* close_position: time.sleep(20), then the next cycle
CloseSleep ==
    /\ pc = "cl_sleep"
    /\ cnt.cycles < MaxCycles
    /\ pc' = "cl_read"
    /\ cnt' = [cnt EXCEPT !.sleeps = @ + 1]
    /\ cl' = NoLocals
    /\ book' = NoBook
    /\ req' = NoOrder
    /\ prevReq' = [req EXCEPT !.price = 0]
    /\ UNCHANGED <<tk, drv, impl, args, posAmt, orders, snap, branch, exc, report, lastRead,
                   cyc>>

\* Faulty variant of Notify: close_position has returned and nothing is sent.
NotifyAlt ==
    /\ pc = "cl_return"
    /\ \/ /\ pc' = "cap_done"
          /\ snap' = NoSnapshot
          /\ branch' = "none"
          /\ UNCHANGED <<report, cl, book, exc>>
       \/ /\ impl = "adapter"
          /\ Raise("send_message")
          /\ UNCHANGED report
    /\ UNCHANGED <<tk, drv, prevReq, impl, args, posAmt, orders, req, lastRead, cnt, cyc>>
\* close_position has returned: the message is built and sent (adapter) or
\* the outcome printed (helper)
Notify ==
    /\ pc = "cl_return"
    /\ \/ /\ report' = Message(branch, snap)
          /\ pc' = "cap_done"
          /\ snap' = NoSnapshot
          /\ branch' = "none"
          /\ UNCHANGED <<cl, book, exc>>
       \/ /\ impl = "adapter"
          /\ Raise("send_message")
          /\ UNCHANGED report
    /\ UNCHANGED <<tk, drv, prevReq, impl, args, posAmt, orders, req, lastRead, cnt, cyc>>

\* close_allowed_positions: except Exception, logged
LogError ==
    /\ pc = "cap_except"
    /\ pc' = "cap_done"
    /\ UNCHANGED <<tk, drv, prevReq, impl, args, posAmt, orders, snap, branch, cl, book, exc, report,
                   req, lastRead, cnt, cyc>>

\* close_allowed_positions returns to execute_strategy
ClearReturn ==
    /\ pc = "cap_done"
    /\ pc' = "load_candles"
    /\ args' = NoArgs
    /\ exc' = ""
    /\ report' = NoReport
    /\ req' = NoOrder
    /\ prevReq' = NoOrder
    /\ lastRead' = NoRead
    /\ cnt' = ZeroCnt
    /\ cyc' = ZeroCyc
    /\ UNCHANGED <<tk, drv, impl, posAmt, orders, snap, branch, cl, book>>

----
\* The rest of the tick: execute_strategy after clear_old_positions.

\* load_candles: fetch_ohlcv, outside every try of the tick
LoadCandles ==
    /\ pc = "load_candles"
    /\ \/ /\ pc' = "cpo_price"
          /\ UNCHANGED <<snap, branch, cl, book, exc>>
       \/ Raise("load_candles")
    /\ UNCHANGED <<tk, drv, impl, args, posAmt, orders, report, req, prevReq, lastRead, cnt,
                   cyc>>

\* check_and_place_orders: get_last_trade_price and the strategy's entry
\* rules; an entry signal calls can_open_position_by_default_rule
CheckEntry ==
    /\ pc = "cpo_price"
    /\ \/ \E side \in {"long", "short"}, m \in MaxSizes :
            /\ drv' = [NoDrv EXCEPT !.expected = side, !.max_size = m]
            /\ pc' = "adm_size"
            /\ UNCHANGED <<snap, branch, cl, book, exc>>
       \/ /\ pc' = "tick_end"
          /\ UNCHANGED <<drv, snap, branch, cl, book, exc>>
       \/ /\ Raise("last_trade")
          /\ UNCHANGED drv
    /\ UNCHANGED <<tk, impl, args, posAmt, orders, report, req, prevReq, lastRead, cnt, cyc>>

\* can_open_position_by_default_rule: has_exceeded_max_size, with its own read
AdmExceeded ==
    /\ pc = "adm_size"
    /\ \/ \E reply \in Replies(posAmt) :
            LET s == GetOpenPositions(reply)
            IN  /\ IF HasExceededMaxSize(s, drv.max_size)
                   THEN /\ drv' = [drv EXCEPT !.amt1 = posAmt, !.result = "deny",
                                              !.why = "size"]
                        /\ pc' = "adm_done"
                   ELSE /\ drv' = [drv EXCEPT !.amt1 = posAmt]
                        /\ pc' = "adm_side"
                /\ UNCHANGED <<snap, branch, cl, book, exc>>
       \/ /\ Raise("adm_size")
          /\ drv' = NoDrv
    /\ UNCHANGED <<tk, impl, args, posAmt, orders, report, req, prevReq, lastRead, cnt, cyc>>

\* Faulty variant of AdmSide: an opposite side does not return, the order
\* test decides.
AdmSideAlt ==
    /\ pc = "adm_side"
    /\ \/ \E reply \in Replies(posAmt) :
            /\ drv' = [drv EXCEPT !.amt2 = posAmt]
            /\ pc' = "adm_orders"
            /\ UNCHANGED <<snap, branch, cl, book, exc>>
       \/ /\ Raise("adm_side")
          /\ drv' = NoDrv
    /\ UNCHANGED <<tk, impl, args, posAmt, orders, report, req, prevReq, lastRead, cnt, cyc>>
\* can_open_position_by_default_rule: current_side from a second read, and
\* its test against expected_side
AdmSide ==
    /\ pc = "adm_side"
    /\ \/ \E reply \in Replies(posAmt) :
            LET current_side == GetOpenPositions(reply).side
            IN  /\ IF OppositeSide(drv.expected, current_side)
                   THEN /\ drv' = [drv EXCEPT !.amt2 = posAmt, !.result = "deny",
                                              !.why = "side"]
                        /\ pc' = "adm_done"
                   ELSE /\ drv' = [drv EXCEPT !.amt2 = posAmt]
                        /\ pc' = "adm_orders"
                /\ UNCHANGED <<snap, branch, cl, book, exc>>
       \/ /\ Raise("adm_side")
          /\ drv' = NoDrv
    /\ UNCHANGED <<tk, impl, args, posAmt, orders, report, req, prevReq, lastRead, cnt, cyc>>

\* Faulty variant of AdmLastOrder: the orders are cancelled before they are
\* fetched.
AdmLastOrderAlt ==
    /\ pc = "adm_orders"
    /\ \/ /\ orders' = CancelAll(orders)
          /\ drv' = [drv EXCEPT !.last = LastStatus(orders'),
                                !.result = IF IsLastOrderOpen(orders') THEN "deny" ELSE "allow",
                                !.why = IF IsLastOrderOpen(orders') THEN "order" ELSE "none"]
          /\ pc' = "adm_done"
          /\ UNCHANGED <<snap, branch, cl, book, exc>>
       \/ /\ Raise("adm_orders")
          /\ drv' = NoDrv
          /\ UNCHANGED orders
    /\ UNCHANGED <<tk, impl, args, posAmt, report, req, prevReq, lastRead, cnt, cyc>>
\* can_open_position_by_default_rule: is_last_order_open, then return True
AdmLastOrder ==
    /\ pc = "adm_orders"
    /\ \/ /\ drv' = [drv EXCEPT !.last = LastStatus(orders),
                                !.result = IF IsLastOrderOpen(orders) THEN "deny" ELSE "allow",
                                !.why = IF IsLastOrderOpen(orders) THEN "order" ELSE "none"]
          /\ pc' = "adm_done"
          /\ UNCHANGED <<orders, snap, branch, cl, book, exc>>
       \/ /\ Raise("adm_orders")
          /\ drv' = NoDrv
          /\ UNCHANGED orders
    /\ UNCHANGED <<tk, impl, args, posAmt, report, req, prevReq, lastRead, cnt, cyc>>

\* check_and_place_orders with the answer: a denial ends the branch; on an
\* allowance the branch body is `pass`, or the open_position call it carries
AdmReturn ==
    /\ pc = "adm_done"
    /\ \/ /\ drv.result = "allow"
          /\ drv' = [NoDrv EXCEPT !.expected = drv.expected, !.max_size = drv.max_size]
          /\ pc' = "op_book"
       \/ /\ drv' = NoDrv
          /\ pc' = "tick_end"
    /\ UNCHANGED <<tk, impl, args, posAmt, orders, snap, branch, cl, book, exc, report, req,
                   prevReq, lastRead, cnt, cyc>>

\* open_position: get_order_book, inside the try
OpenBook ==
    /\ pc = "op_book"
    /\ \/ \E b \in Prices, a \in Prices :
            /\ book' = [bid |-> b, ask |-> a]
            /\ pc' = "op_submit"
            /\ UNCHANGED <<snap, branch, cl, exc>>
       \/ Raise("op_book")
       \/ Raise("op_book_empty")
    /\ UNCHANGED <<tk, drv, impl, args, posAmt, orders, report, req, prevReq, lastRead, cnt,
                   cyc>>

\* open_position: create_order, once
OpenSubmit ==
    /\ pc = "op_submit"
    /\ LET o == OpenOrder(drv.expected, book, PositionSizeDefault)
       IN  \/ /\ CanAccept(orders)
              /\ orders' = Accept(orders, Resting(o))
              /\ req' = o
              /\ drv' = [drv EXCEPT !.ret = "None"]
              /\ pc' = "op_done"
              /\ UNCHANGED <<snap, branch, cl, book, exc>>
           \/ /\ Raise("op_submit")
              /\ UNCHANGED <<orders, req, drv>>
    /\ UNCHANGED <<tk, impl, args, posAmt, report, prevReq, lastRead, cnt, cyc>>

\* open_position: except Exception, logged; the function ends and returns None
OpenLogError ==
    /\ pc = "op_except"
    /\ pc' = "op_done"
    /\ drv' = [drv EXCEPT !.ret = "None"]
    /\ UNCHANGED <<tk, impl, args, posAmt, orders, snap, branch, cl, book, exc, report, req,
                   prevReq, lastRead, cnt, cyc>>

\* open_position returns to check_and_place_orders
OpenReturn ==
    /\ pc = "op_done"
    /\ pc' = "tick_end"
    /\ drv' = NoDrv
    /\ book' = NoBook
    /\ req' = NoOrder
    /\ UNCHANGED <<tk, impl, args, posAmt, orders, snap, branch, cl, exc, report, prevReq,
                   lastRead, cnt, cyc>>

\* check_and_place_orders: except Exception, printed
CpoLogError ==
    /\ pc = "cpo_except"
    /\ pc' = "tick_end"
    /\ UNCHANGED <<tk, drv, impl, args, posAmt, orders, snap, branch, cl, book, exc, report, req,
                   prevReq, lastRead, cnt, cyc>>

\* the main loop: except Exception around schedule.run_pending(), printed;
\* the loop goes on
MainLogError ==
    /\ pc = "main_except"
    /\ pc' = "idle"
    /\ UNCHANGED <<tk, drv, impl, args, posAmt, orders, snap, branch, cl, book, exc, report, req,
                   prevReq, lastRead, cnt, cyc>>

\* execute_strategy returns; the main loop sleeps until the job is due again
EndTick ==
    /\ pc = "tick_end"
    /\ pc' = "idle"
    /\ UNCHANGED <<tk, drv, impl, args, posAmt, orders, snap, branch, cl, book, exc, report, req,
                   prevReq, lastRead, cnt, cyc>>

----
\* The exchange on its own.

\* a resting order fills, fully or in part
Fill ==
    /\ \E i \in 1..Len(orders) : \E q \in 1..MaxPos :
        /\ orders[i].status = "open"
        /\ q <= orders[i].remaining
        /\ LET np == IF orders[i].side = "buy" THEN posAmt + q ELSE posAmt - q
           IN  /\ np \in Amts
               /\ posAmt' = np
        /\ orders' = FillAt(orders, i, q)
    /\ UNCHANGED <<tk, drv, prevReq, impl, args, pc, snap, branch, cl, book, exc, report, req,
                   lastRead, cnt, cyc>>

\* the position changes by something other than the controller's orders
ExternalChange ==
    /\ \E a \in Amts :
        /\ a # posAmt
        /\ posAmt' = a
    /\ UNCHANGED <<tk, drv, prevReq, impl, args, orders, pc, snap, branch, cl, book, exc, report, req,
                   lastRead, cnt, cyc>>

Next ==
    \/ Tick
    \/ CapCancel
    \/ PnlRead
    \/ ClosePnlEvaluate
    \/ CloseRead
    \/ CloseCancel
    \/ CloseBook
    \/ CloseSubmit
    \/ CloseSleep
    \/ Notify
    \/ LogError
    \/ ClearReturn
    \/ LoadCandles
    \/ CheckEntry
    \/ AdmExceeded
    \/ AdmSide
    \/ AdmLastOrder
    \/ AdmReturn
    \/ OpenBook
    \/ OpenSubmit
    \/ OpenLogError
    \/ OpenReturn
    \/ CpoLogError
    \/ MainLogError
    \/ EndTick
    \/ Fill
    \/ ExternalChange

Spec == Init /\ [][Next]_vars

----
\* The controller on a calm exchange: no call fails, and the position moves
\* only by fills of the resting close order during the loop's wait.

\* close_position: the sleep of a cycle beyond the counted ones; the loop
\* has no counter, the history starts over
CloseSleepOn ==
    /\ pc = "cl_sleep"
    /\ cnt.cycles >= MaxCycles
    /\ pc' = "cl_read"
    /\ cnt' = ZeroCnt
    /\ cl' = NoLocals
    /\ book' = NoBook
    /\ req' = NoOrder
    /\ prevReq' = [req EXCEPT !.price = 0]
    /\ UNCHANGED <<tk, drv, impl, args, posAmt, orders, snap, branch, exc, report, lastRead,
                   cyc>>

\* no call of the step fails
Calm == exc' = ""

\* the steps of the program in which no call fails
CalmStep ==
    \/ Tick /\ Calm
    \/ CapCancel /\ Calm
    \/ PnlRead /\ Calm
    \/ ClosePnlEvaluate /\ Calm
    \/ CloseRead /\ Calm
    \/ CloseCancel /\ Calm
    \/ CloseBook /\ Calm
    \/ CloseSubmit /\ Calm
    \/ CloseSleep /\ Calm
    \/ CloseSleepOn /\ Calm
    \/ Notify /\ Calm
    \/ ClearReturn /\ Calm
    \/ LoadCandles /\ Calm
    \/ CheckEntry /\ Calm
    \/ AdmExceeded /\ Calm
    \/ AdmSide /\ Calm
    \/ AdmLastOrder /\ Calm
    \/ AdmReturn /\ Calm
    \/ OpenBook /\ Calm
    \/ OpenSubmit /\ Calm
    \/ OpenReturn /\ Calm
    \/ EndTick /\ Calm

\* the resting close order fills, fully or in part, while the loop sleeps
FillInWait == pc = "cl_sleep" /\ Fill

CalmNext == CalmStep \/ FillInWait

\* The program always takes its next step; a resting close order that waits
\* again and again is filled in the end.
CalmSpec ==
    /\ Init
    /\ [][CalmNext]_vars
    /\ WF_vars(CalmStep)
    /\ SF_vars(FillInWait)

----
\* Properties.

ClosePcs == {"cl_read", "cl_cancel", "cl_book", "cl_submit", "cl_sleep"}

OpenSide(side) == side \in {"long", "short"}

\* C1: a stop-loss or take-profit outcome is sent only from the return of
\* close_position, after at least one read of the close loop, and the most
\* recent position read then showed no open position.
C1_NotifyAfterFlatRead ==
    [][(report.kind = "none" /\ report'.kind # "none")
        => (pc = "cl_return" /\ cnt.cycles >= 1 /\ ~OpenSide(lastRead.side))]_vars

\* C1 witness: a stop-loss notification was sent after a close loop that
\* submitted an order.
C1_Witness ==
    /\ impl = "adapter"
    /\ report.kind = "stop_loss"
    /\ cnt.submits >= 1

\* C2 (as claimed): a failed create_order is absorbed inside the close
\* loop, which goes on with a later cycle.
C2_SubmitFailureStaysInLoop == exc = "cl_submit" => pc \in ClosePcs

\* C3 (as claimed): a failed position read, cancel-all or order-book read,
\* or an empty book side, is absorbed inside the close loop.
C3_GatewayFailureStaysInLoop ==
    exc \in {"cl_read", "cl_cancel", "cl_book", "cl_book_empty"} => pc \in ClosePcs

\* C4: close_position returns only in a cycle whose own read showed no open
\* position, and that cycle cancelled nothing, read no book and submitted
\* nothing.
C4_ReturnOnlyWhenFlat ==
    pc = "cl_return"
        => /\ cnt.cycles >= 1
           /\ ~OpenSide(lastRead.side)
           /\ cyc = ZeroCyc
           /\ req = NoOrder

\* C4 witness: the loop returns in its second cycle, after one submission.
C4_Witness == pc = "cl_return" /\ cnt.cycles = 2 /\ cnt.submits = 1

\* C5: the order of a cycle is a sell at the rounded best ask when the
\* cycle read a long position, a buy at the rounded best bid when it read a
\* short one; the book is the one read in that cycle.
C5_CloseOrderSideAndPrice ==
    pc = "cl_sleep"
        => /\ cyc.books = 1
           /\ \/ /\ lastRead.side = "long"
                 /\ req.side = "sell"
                 /\ req.price = PriceToPrecision(book.ask)
              \/ /\ lastRead.side = "short"
                 /\ req.side = "buy"
                 /\ req.price = PriceToPrecision(book.bid)

\* C5 witness: a buy at the rounded bid closes a short position, on a book
\* whose rounded bid and ask differ.
C5_Witness ==
    /\ pc = "cl_sleep"
    /\ lastRead.side = "short"
    /\ req.side = "buy"
    /\ PriceToPrecision(book.bid) # PriceToPrecision(book.ask)
    /\ req.price # book.bid

\* C6: the order of a cycle has the size and the closing side of what the
\* exchange held when that cycle read the position.
C6_OrderFromFreshSnapshot ==
    pc = "cl_sleep"
        => /\ req.amount = Abs(lastRead.amt)
           /\ req.side = (IF lastRead.amt > 0 THEN "sell" ELSE "buy")
           /\ lastRead.amt # 0

\* C6 witness: the second cycle's order differs in size and side from the
\* first cycle's, the position having changed in between.
C6_Witness ==
    /\ pc = "cl_sleep"
    /\ cnt.cycles = 2
    /\ prevReq.side = "sell"
    /\ prevReq.amount = 2
    /\ req.side = "buy"
    /\ req.amount = 1

\* C7: a close loop that no call failed has, at every point, one
\* submission and one sleep per open read, and returns in the cycle after
\* the last open read.
C7_CycleCounts ==
    /\ pc = "cl_read"
        => cnt.cycles = cnt.openReads /\ cnt.submits = cnt.cycles /\ cnt.sleeps = cnt.cycles
    /\ pc \in {"cl_cancel", "cl_book", "cl_submit"}
        => /\ cnt.cycles = cnt.openReads
           /\ cnt.submits = cnt.cycles - 1
           /\ cnt.sleeps = cnt.cycles - 1
    /\ pc = "cl_sleep"
        => /\ cnt.cycles = cnt.openReads
           /\ cnt.submits = cnt.cycles
           /\ cnt.sleeps = cnt.cycles - 1
    /\ pc = "cl_return"
        => /\ cnt.cycles = cnt.openReads + 1
           /\ cnt.submits = cnt.openReads
           /\ cnt.sleeps = cnt.openReads

\* C7 witness: size 2, then flat after one submitted order: two cycles.
C7_Witness ==
    /\ pc = "cl_return"
    /\ cnt.cycles = 2
    /\ cnt.submits = 1
    /\ cnt.sleeps = 1
    /\ prevReq.amount = 2
    /\ lastRead.amt = 0

\* C8 (as claimed): the adapter enters the stop-loss branch for every open
\* position whose percentage is below the stop-loss threshold.
C8_StopLossBelowThreshold ==
    [][(pc = "pnl_eval" /\ pc' # pc /\ impl = "adapter" /\ OpenSide(snap.side)
            /\ snap.percent < args.loss)
        => (branch' = "stop_loss" /\ pc' = "cl_read")]_vars

\* C9 (as claimed): with stop-loss below take-profit, the adapter does
\* nothing for an open position whose percentage lies strictly between them.
C9_NoActionBetweenThresholds ==
    [][(pc = "pnl_eval" /\ pc' # pc /\ impl = "adapter" /\ OpenSide(snap.side)
            /\ args.loss < args.target
            /\ args.loss < snap.percent /\ snap.percent < args.target)
        => (branch' = "none" /\ pc' = "cap_done")]_vars

\* C10 (as claimed): close_pnl_position does nothing for a tuple without an
\* open position, whatever percentage it carries.
C10_NoActionWhenFlat ==
    [][(pc = "pnl_eval" /\ pc' # pc /\ ~OpenSide(snap.side))
        => (branch' = "none" /\ pc' = "cap_done")]_vars

\* What the exchange held, against the arguments of the admission call.
AtOrOverMax(amt) == Abs(amt) >= drv.max_size

AgainstExpected(amt) ==
    \/ drv.expected = "long" /\ amt < 0
    \/ drv.expected = "short" /\ amt > 0

\* C11: once has_exceeded_max_size has read a position whose size is at or
\* above max_size, can_open_position_by_default_rule returns False there,
\* whatever the side, the expected side and the orders.
C11_DenyAtMaxSize ==
    (pc \in {"adm_side", "adm_orders", "adm_done"} /\ AtOrOverMax(drv.amt1))
        => (pc = "adm_done" /\ drv.result = "deny" /\ drv.why = "size")

\* C11 witness: max_size 2 lots (0.004), a long position of 2 lots,
\* expected side long, denied.
C11_Witness ==
    /\ pc = "adm_done"
    /\ drv.max_size = MaxSizeDefault
    /\ drv.amt1 = MaxSizeDefault
    /\ drv.expected = "long"
    /\ drv.result = "deny"

\* C12: once the second read has shown a position on the side opposite to
\* expected_side, can_open_position_by_default_rule returns False there.
C12_DenyOppositeSide ==
    (pc \in {"adm_orders", "adm_done"} /\ drv.why # "size" /\ AgainstExpected(drv.amt2))
        => (pc = "adm_done" /\ drv.result = "deny" /\ drv.why = "side")

\* C12 witness: a long position below max_size, no order at all, expected
\* side short, denied.
C12_Witness ==
    /\ pc = "adm_done"
    /\ drv.expected = "short"
    /\ drv.amt1 > 0
    /\ drv.amt2 > 0
    /\ drv.amt2 < drv.max_size
    /\ orders = << >>
    /\ drv.result = "deny"

\* C13: when the call gets as far as is_last_order_open, it returns False
\* exactly when fetch_orders showed a non-empty list whose last order is
\* open; with no orders is_last_order_open is False and nothing is raised.
C13_DenyLastOrderOpen ==
    (pc = "adm_done" /\ drv.last # "unread")
        => /\ drv.result = "deny" <=> drv.last = "open"
           /\ drv.result = "allow" <=> drv.last \in {"empty", "closed", "canceled"}
           /\ exc = ""

\* C13 witness: the newest order is open and the call is denied for it.
C13_Witness ==
    /\ pc = "adm_done"
    /\ drv.last = "open"
    /\ drv.why = "order"
    /\ ~AtOrOverMax(drv.amt1)
    /\ ~AgainstExpected(drv.amt2)

\* C14: when both reads of the call saw the same position, the call
\* returns True exactly when the size is below max_size, the side is not
\* opposite and the last order is not open; the first failing test, in
\* that order, is the one that denies.
C14_AllowIffNoDeny ==
    (pc = "adm_done" /\ (drv.why = "size" \/ drv.amt2 = drv.amt1))
        => /\ drv.result = "allow"
                <=> (~AtOrOverMax(drv.amt1) /\ ~AgainstExpected(drv.amt1)
                     /\ drv.last \in {"empty", "closed", "canceled"})
           /\ drv.why = "size" <=> AtOrOverMax(drv.amt1)
           /\ drv.why = "side"
                <=> (~AtOrOverMax(drv.amt1) /\ AgainstExpected(drv.amt1))
           /\ drv.why = "order"
                <=> (~AtOrOverMax(drv.amt1) /\ ~AgainstExpected(drv.amt1)
                     /\ drv.last = "open")

\* C14 witness: a long position below max_size, expected side long, newest
\* order cancelled: allowed.
C14_Witness ==
    /\ pc = "adm_done"
    /\ drv.result = "allow"
    /\ drv.expected = "long"
    /\ drv.amt1 = 1
    /\ drv.amt2 = 1
    /\ drv.last = "canceled"

AdmPcs == {"adm_size", "adm_side", "adm_orders"}

\* C15: no step of can_open_position_by_default_rule, whether it goes on,
\* allows, denies or raises, changes the orders or the position.
C15_AdmissionReadOnly ==
    [][(pc \in AdmPcs /\ pc' # pc) => (orders' = orders /\ posAmt' = posAmt)]_vars

\* C15 witness: the call has denied for an open last order, which still
\* rests, beside a position.
C15_Witness ==
    /\ pc = "adm_done"
    /\ drv.why = "order"
    /\ orders # << >>
    /\ orders[Len(orders)].status = "open"
    /\ posAmt # 0

\* C16: the order of open_position is a buy at the rounded best bid for
\* side long, a sell at the rounded best ask for side short, for the
\* requested amount, on the book read in this call.
C16_OpenOrderSideAndPrice ==
    (pc = "op_done" /\ req # NoOrder)
        => /\ book.bid \in Prices /\ book.ask \in Prices
           /\ req.amount = PositionSizeDefault
           /\ \/ /\ drv.expected = "long"
                 /\ req.side = "buy"
                 /\ req.price = PriceToPrecision(book.bid)
              \/ /\ drv.expected = "short"
                 /\ req.side = "sell"
                 /\ req.price = PriceToPrecision(book.ask)

\* C16 witness: a long entry bought at the rounded bid, on a book whose bid
\* is not a price increment and rounds apart from the ask.
C16_Witness ==
    /\ pc = "op_done"
    /\ drv.expected = "long"
    /\ req.side = "buy"
    /\ req.price # book.bid
    /\ PriceToPrecision(book.bid) # PriceToPrecision(book.ask)

\* C17 (as claimed): after a failed create_order, what open_position hands
\* back to its caller differs from the None it hands back after a
\* successful one.
C17_FailureReportedToCaller ==
    (pc = "op_done" /\ exc = "op_submit") => drv.ret # "None"

C19_SizeIsMagnitude ==
    (pc = "pnl_eval" /\ ~snap.empty)
        => /\ snap.size >= 0
           /\ lastRead.amt < 0 => (snap.size = 0 - lastRead.amt /\ snap.side = "short")
           /\ lastRead.amt >= 0 => snap.size = lastRead.amt

\* C19 witness: a short position of 2 lots, written "-2", read as size 2.
C19_Witness ==
    /\ pc = "pnl_eval"
    /\ lastRead.amt = -2
    /\ snap.size = 2
    /\ snap.side = "short"

TickPcs ==
    {"idle", "cap_cancel", "pnl_read", "pnl_eval", "cl_return", "cap_except",
     "cap_done", "load_candles", "cpo_price", "adm_done", "op_book", "op_submit",
     "op_except", "op_done", "cpo_except", "main_except", "tick_end"}
        \cup ClosePcs \cup AdmPcs

\* C20: the process is always somewhere in the loop or a tick; an exception
\* of close_allowed_positions is caught and logged inside it, one of
\* open_position inside it, and any other of the tick by
\* check_and_place_orders or by the main loop, which then stands ready for
\* the next tick.
C20_NoFailureIsFatal ==
    /\ pc \in TickPcs
    /\ exc \in CapSites => pc \in {"cap_except", "cap_done"}
    /\ exc \in OpenSites => pc \in {"op_except", "op_done", "tick_end", "idle"}
    /\ exc \in CpoSites => pc \in {"cpo_except", "tick_end", "idle"}
    /\ exc \notin (CapSites \cup OpenSites \cup CpoSites \cup {""})
            => pc \in {"main_except", "idle"}
    /\ pc = "idle" => ENABLED Tick

\* C20 witness: an exception left the tick uncaught, the main loop caught
\* it and stands idle before the next tick.
C20_Witness ==
    /\ pc = "idle"
    /\ exc = "load_candles"

\* C21 (as claimed): when close_allowed_positions is done after a close
\* loop that made at least one read, the last read showed no open position.
C21_NoReturnWhileOpen ==
    (pc = "cap_done" /\ cnt.cycles >= 1) => ~OpenSide(lastRead.side)

\* C22 (as claimed): the order a close cycle submits is no larger than the
\* position the exchange holds when it is submitted, and closes its side.
C22_OrderWithinPosition ==
    [][(pc = "cl_submit" /\ pc' = "cl_sleep" /\ req' # NoOrder)
        => /\ req'.amount <= Abs(posAmt)
           /\ req'.side = "sell" => posAmt > 0
           /\ req'.side = "buy" => posAmt < 0]_vars

\* C23 (as claimed): when close_position returns, no order rests on the book.
C23_NoRestingOrderAtReturn ==
    pc = "cl_return" => OpenOrders(orders) = << >>

\* the step that follows each step of a cycle when no call fails
AfterInCycle(at) ==
    IF at = "cl_read" THEN {"cl_cancel", "cl_return"}
    ELSE IF at = "cl_cancel" THEN {"cl_book"}
    ELSE IF at = "cl_book" THEN {"cl_submit"}
    ELSE IF at = "cl_submit" THEN {"cl_sleep"}
    ELSE {"cl_read"}

\* C24: a cycle that read an open position makes its calls in the order
\* cancel-all, order book, create_order, sleep, each once, and the next
\* read follows the sleep; the cancel-all is made whether or not an order
\* rests.
C24_CycleCallOrder ==
    /\ [](/\ pc = "cl_cancel" => cyc = ZeroCyc
          /\ pc = "cl_book" => cyc = [cancels |-> 1, books |-> 0, submits |-> 0]
          /\ pc = "cl_submit" => cyc = [cancels |-> 1, books |-> 1, submits |-> 0]
          /\ pc = "cl_sleep" => cyc = [cancels |-> 1, books |-> 1, submits |-> 1])
    /\ [][(pc \in ClosePcs /\ pc' # pc /\ exc' = "") => pc' \in AfterInCycle(pc)]_vars
    /\ [][(pc = "cl_read" /\ pc' = "cl_cancel") => OpenSide(lastRead'.side)]_vars

\* C24 witness: the first cycle of a loop has cancelled (with nothing
\* resting), read the book and submitted, and waits.
C24_Witness ==
    /\ pc = "cl_sleep"
    /\ cnt.cycles = 1
    /\ cyc = [cancels |-> 1, books |-> 1, submits |-> 1]
    /\ Len(orders) = 1

\* C25: at most one order rests on the book at any moment.
C25_AtMostOneResting == Len(OpenOrders(orders)) <= 1

\* C25 witness: the second cycle's order rests, the first cycle's having
\* been cancelled with what was left of it.
C25_Witness ==
    /\ pc = "cl_sleep"
    /\ cnt.cycles = 2
    /\ prevReq.amount = 2
    /\ req.amount = 1
    /\ Len(OpenOrders(orders)) = 1

\* C26: the close loop is left only by a read that shows no open position
\* or by an exception; after every sleep, whatever the number of cycles
\* made, comes another read, and after every open read another cycle.
C26_NoRetryBound ==
    /\ [][(pc \in ClosePcs /\ pc' \notin ClosePcs)
            => \/ pc = "cl_read" /\ pc' = "cl_return" /\ ~OpenSide(lastRead'.side)
               \/ pc' = "cap_except" /\ exc' # ""]_vars
    /\ [][(pc = "cl_sleep" /\ pc' # pc) => (pc' = "cl_read" /\ exc' = "")]_vars
    /\ [][(pc = "cl_read" /\ pc' = "cl_cancel")
            => (cnt'.cycles = cnt.cycles + 1 /\ cnt.submits = cnt.cycles)]_vars
    /\ []((pc = "cl_sleep" /\ cnt.cycles < MaxCycles) => ENABLED CloseSleep)

\* C26 witness: every read showed the position open and the loop has
\* submitted in each of its cycles, up to the last one counted.
C26_Witness ==
    /\ pc = "cl_sleep"
    /\ cnt.cycles = MaxCycles
    /\ cnt.submits = MaxCycles
    /\ cnt.openReads = MaxCycles

\* the newest order, or a finished one when there is none
Newest(os) == IF os = << >> THEN Done("closed") ELSE os[Len(os)]

\* C28 (as claimed): a fill of the order open_position has just submitted
\* after an allowed admission never takes the position size from within
\* max_size to above it.
C28_OpenStaysWithinMax ==
    [][(pc = "op_done" /\ req # NoOrder /\ Newest(orders).status = "open"
            /\ Newest(orders') # Newest(orders) /\ posAmt' # posAmt
            /\ Abs(posAmt) <= drv.max_size)
        => Abs(posAmt') <= drv.max_size]_vars

\* the admission rule on a position: size below max_size, side not opposite
AllowedAt(amt) == ~AtOrOverMax(amt) /\ ~AgainstExpected(amt)

\* C29 (as claimed): an allowed admission is the rule applied to a position
\* one of the reads of the call saw.
C29_OneSnapshotDecides ==
    (pc = "adm_done" /\ drv.result = "allow")
        => (AllowedAt(drv.amt1) \/ AllowedAt(drv.amt2))

\* the percentage close_pnl_position compares, and whether it compares at all
EvalPct == IF impl = "adapter" THEN Round2(snap.percent) ELSE snap.percent

Evaluated == ~snap.empty /\ (impl = "adapter" => snap.open)

C27_StopLossClosesAndNotifies ==
    (/\ pc = "pnl_eval"
     /\ ~snap.empty
     /\ snap.side = "long"
     /\ snap.percent = -5000
     /\ args = [loss |-> StopLossDefault, target |-> TakeProfitDefault])
        ~> (pc = "cap_done" /\ report.kind = "stop_loss" /\ posAmt = 0)

\* C27 witness: the stop-loss outcome is sent after a sell order closed the
\* position.
C27_Witness ==
    /\ pc = "cap_done"
    /\ report.kind = "stop_loss"
    /\ prevReq.side = "sell"
    /\ lastRead.amt = 0
    /\ posAmt = 0

\* C31 (as claimed): for an open position, a percentage equal to the
\* stop-loss threshold does not take the stop-loss branch, and one equal to
\* the take-profit threshold, not below the stop-loss, takes the
\* take-profit branch.
C31_BoundariesAsymmetric ==
    [][(pc = "pnl_eval" /\ pc' # pc /\ OpenSide(snap.side))
        => /\ snap.percent = args.loss => branch' # "stop_loss"
           /\ (snap.percent = args.target /\ ~(snap.percent < args.loss))
                => branch' = "take_profit"]_vars

\* C32 (as claimed): on every tuple and thresholds, the adapter's
\* close_pnl_position and the helper's take the same branch.
C32_EvaluatorsAgree ==
    pc = "pnl_eval"
        => ThresholdAction("adapter", snap, args) = ThresholdAction("helper", snap, args)

\* C33: a send_message that fails after close_position has returned is
\* caught and logged by close_allowed_positions, which then returns to the
\* tick; from the failure to that return the program submits and cancels
\* nothing, leaves the position alone and reports no outcome.
C33_NotifyFailureContained ==
    /\ [](exc = "send_message"
            => /\ impl = "adapter"
               /\ pc \in {"cap_except", "cap_done"}
               /\ report = NoReport
               /\ ~OpenSide(lastRead.side)
               /\ pc = "cap_done" => ENABLED ClearReturn)
    /\ [][(exc' = "send_message" /\ pc' # pc)
            => /\ orders' = orders
               /\ posAmt' = posAmt
               /\ \/ pc = "cl_return" /\ pc' = "cap_except"
                  \/ pc = "cap_except" /\ pc' = "cap_done"]_vars
    /\ [][(exc = "send_message" /\ pc' # pc /\ exc' # exc)
            => (pc = "cap_done" /\ pc' = "load_candles" /\ orders' = orders
                /\ posAmt' = posAmt)]_vars

\* C33 witness: the position was closed by an order of the loop, the
\* message failed, the failure is logged and the tick goes on.
C33_Witness ==
    /\ pc = "cap_done"
    /\ exc = "send_message"
    /\ cnt.submits >= 1
    /\ posAmt = 0
    /\ lastRead.amt = 0

\* the book's best bid is at or above its best ask
Crossed(b) == b.bid >= b.ask

\* C34: on a crossed or equal book the close cycle and open_position go on
\* to create_order as on any book, and the order is the one of the normal
\* rule: closing side and size of the cycle's read at the rounded ask
\* (long) or bid (short); for an opening, buy at the rounded bid (long) or
\* sell at the rounded ask (short) of the configured size.  No step is
\* skipped and nothing is raised by the program for such a book.
C34_CrossedBookAsNormal ==
    /\ [][(pc = "cl_submit" /\ Crossed(book) /\ pc' # pc /\ exc' = "")
            => /\ pc' = "cl_sleep"
               /\ book' = book
               /\ req'.amount = Abs(lastRead.amt)
               /\ lastRead.amt > 0
                    => (req'.side = "sell" /\ req'.price = PriceToPrecision(book.ask))
               /\ lastRead.amt < 0
                    => (req'.side = "buy" /\ req'.price = PriceToPrecision(book.bid))
               /\ Newest(orders')
                    = Resting(req')]_vars
    /\ [][(pc = "op_submit" /\ Crossed(book) /\ pc' # pc /\ exc' = "")
            => /\ pc' = "op_done"
               /\ book' = book
               /\ req'.amount = PositionSizeDefault
               /\ drv.expected = "long"
                    => (req'.side = "buy" /\ req'.price = PriceToPrecision(book.bid))
               /\ drv.expected = "short"
                    => (req'.side = "sell" /\ req'.price = PriceToPrecision(book.ask))
               /\ Newest(orders')
                    = Resting(req')]_vars
    /\ []((pc \in {"cl_submit", "op_submit"} /\ Crossed(book))
            => (exc = "" /\ book.bid \in Prices /\ book.ask \in Prices))
    /\ []((pc = "cl_submit" /\ Crossed(book) /\ CanAccept(orders))
            => ENABLED (CloseSubmit /\ exc' = ""))

\* C34 witness: a long position is being closed on a book whose bid is
\* above its ask and rounds to another price: the sell rests at the
\* rounded ask.
C34_Witness ==
    /\ pc = "cl_sleep"
    /\ book.bid > book.ask
    /\ lastRead.amt > 0
    /\ req.side = "sell"
    /\ req.price = PriceToPrecision(book.ask)
    /\ req.price # PriceToPrecision(book.bid)
    /\ Newest(orders).status = "open"

\* where close_allowed_positions and what it calls are
CapPcs ==
    {"cap_cancel", "pnl_read", "pnl_eval", "cl_return", "cap_except", "cap_done"}
        \cup ClosePcs

\* where check_and_place_orders and what it calls are
CpoPcs ==
    {"cpo_price", "adm_done", "op_book", "op_submit", "op_except", "op_done",
     "cpo_except"} \cup AdmPcs

\* C35: a tick runs close_allowed_positions to its end, then load_candles,
\* then check_and_place_orders, then ends; a close loop, once entered, is
\* left only by its own return or by an exception, and only then does
\* close_allowed_positions end; the job starts only when the tick before
\* has ended.  While the admission check or open_position runs, no frame
\* of the threshold evaluation or of the close loop is live, and the other
\* way round.
C35_TickPhasesInOrder ==
    /\ [](/\ pc \in CpoPcs \cup {"load_candles", "tick_end"}
            => /\ args = NoArgs /\ snap = NoSnapshot /\ branch = "none"
               /\ cl = NoLocals /\ cnt = ZeroCnt /\ cyc = ZeroCyc
          /\ pc \in CapPcs \cup {"idle"} => drv = NoDrv)
    /\ [][pc' # pc
            => /\ pc' \in CpoPcs => pc \in CpoPcs \cup {"load_candles"}
               /\ pc' = "cpo_price" => pc = "load_candles"
               /\ pc' = "load_candles" => pc = "cap_done"
               /\ pc' = "cap_done"
                    => \/ pc = "pnl_eval" /\ branch' = "none"
                       \/ pc = "cl_return"
                       \/ pc = "cap_except"
               /\ pc \in ClosePcs => pc' \in ClosePcs \cup {"cl_return", "cap_except"}
               /\ pc' \in ClosePcs => pc \in ClosePcs \cup {"pnl_eval"}
               /\ pc' = "cap_cancel" => pc = "idle"
               /\ pc' = "idle" => pc \in {"tick_end", "main_except"}]_vars

\* C35 witness: the admission check runs in a tick whose close loop
\* submitted an order, which still rests, the loop having ended.
C35_Witness ==
    /\ pc = "adm_size"
    /\ tk = "cancelled"
    /\ exc = ""
    /\ Newest(orders).status = "open"
    /\ Newest(orders).from = "this_tick"

\* the resting orders that were submitted in an earlier tick
EarlierResting(os) ==
    SelectSeq(os, LAMBDA o : o.status = "open" /\ o.from = "earlier_tick")

\* C36: in every tick the position is read and the thresholds are tested
\* only after cancel_all_orders has returned, with no order resting then,
\* whatever the position and the percentage turn out to be; every later
\* step of the tick, the admission check among them, has attempted that
\* cancel, and when it returned no order submitted in an earlier tick rests
\* for the rest of the tick.
C36_EarlierOrdersCancelled ==
    /\ pc \in {"pnl_read", "pnl_eval"}
        => (tk = "cancelled" /\ OpenOrders(orders) = << >>)
    /\ pc \notin {"idle", "cap_cancel"} => tk \in {"cancelled", "failed"}
    /\ tk = "cancelled" => EarlierResting(orders) = << >>
    /\ (pc \in AdmPcs /\ EarlierResting(orders) # << >>) => tk = "failed"

\* C36 witness: the admission check runs in a tick whose cancel_all_orders
\* cancelled the order that rested when the tick began.
C36_Witness ==
    /\ pc = "adm_size"
    /\ tk = "cancelled"
    /\ Len(orders) = 1
    /\ Newest(orders).status = "canceled"

====
